---- MODULE Spec2Model ----
(***************************************************************************)
(* Model of the Chat component of client/pages/chat.jsx (the variant with  *)
(* tool registration, lines 343-697): the React state of the component,    *)
(* the objects it creates (peer connections, data channels, timers, audio  *)
(* monitors), and one action per callback the browser can run.             *)
(*                                                                         *)
(* React state is kept twice: the current value (every setState applied in *)
(* call order) and the value of the last committed render ("rendered").    *)
(* Closures created by a render (click handlers, effects, and the timers   *)
(* effects start) read the rendered values.  Render commits the current    *)
(* values and runs, in declaration order, the effects whose dependencies   *)
(* differ from the previous commit.  Callbacks of separate browser tasks   *)
(* may run before the scheduled render does.                               *)
(*                                                                         *)
(* Consecutive awaits of startSession whose continuations touch no shared  *)
(* state are one suspension point here: fetch + json ("token"),            *)
(* getUserMedia ("mic"), createOffer + setLocalDescription ("offer"),      *)
(* POST + text + setRemoteDescription ("sdp").                             *)
(***************************************************************************)
EXTENDS Integers, Sequences, FiniteSets, TLC

\* ---------------------------------------------------------------- bounds
MaxSessions == 2    \* startSession invocations explored
MaxEvents == 2      \* inbound messages held in the event log
MaxTimers == 1      \* pending 500 ms timeouts
MaxMonitors == 2    \* running checkAudioLevel loops
MaxTime == 1        \* value the duration counter is followed up to
MaxFrames == 5      \* samples one checkAudioLevel loop is followed for
MaxSeconds == 1     \* seconds Date.now() is followed for between callbacks

\* ------------------------------------------------------------- constants
DISCONNECTED == "disconnected"
CONNECTING == "connecting"
CONNECTED == "connected"

REVIEW == "review_current_weekly_plan"
ADJUST == "adjust_exercise_plan"
CONFIRM == "confirm_final_plan"
FnNames == {REVIEW, ADJUST, CONFIRM}

Sids == 1..MaxSessions
NoDc == 0

SILENCE_THRESHOLD == 10
SILENCE_DURATION == 2000

\* localStorage key written by the handler of a function name
CacheKey(fn) ==
    IF fn = REVIEW THEN "lastReviewPlan"
    ELSE IF fn = ADJUST THEN "lastExerciseAdjustment"
    ELSE "lastPlanConfirmation"

CacheKeys == {CacheKey(fn) : fn \in FnNames}

\* arguments strings carried by function calls: a payload, a payload that
\* has a field named timestamp, and a text that is not JSON
TooHard == "{\"user_feedback\":\"too hard\"}"
Stamped == "{\"timestamp\":\"iso:0\",\"total_weekly_minutes\":\"90\"}"
NotJson == "{\"user_feedback\":"

ArgSet == {TooHard}
PayloadArgs == {TooHard, Stamped, NotJson}

\* JSON.parse of an arguments string (lines 510, 539, 577)
JSONParse(text) ==
    IF text = TooHard
    THEN [throws |-> FALSE, value |-> [user_feedback |-> "too hard"]]
    ELSE IF text = Stamped
    THEN [throws |-> FALSE,
          value |-> [timestamp |-> "iso:0", total_weekly_minutes |-> "90"]]
    ELSE [throws |-> TRUE, value |-> [x \in {} |-> ""]]

\* new Date(t).toISOString(), written "iso:" followed by the milliseconds
ToISOString(t) == "iso:" \o ToString(t)

\* the object literal { timestamp: ts, ...payload } (lines 547-550, 575-578):
\* a field of the payload replaces the field of the same name before it
Spread(ts, payload) ==
    [f \in {"timestamp"} \cup DOMAIN payload |->
        IF f \in DOMAIN payload THEN payload[f] ELSE ts]

\* the object a handler stores for a call at Date.now() = t (lines 508-511,
\* 547-550, 575-578); localStorage keeps its JSON text
Result(fn, a, t) ==
    IF fn = REVIEW
    THEN [timestamp |-> ToISOString(t), feedback |-> JSONParse(a).value]
    ELSE Spread(ToISOString(t), JSONParse(a).value)

\* localStorage.getItem of a key never written
Null == [null |-> TRUE]

\* one item of response.output
FunctionCall(fn, a) == [type |-> "function_call", name |-> fn, arguments |-> a]

\* inbound data-channel events, already parsed
SessionCreated == [type |-> "session.created", output |-> <<>>]
OtherEvent == [type |-> "response.audio.delta", output |-> <<>>]
ResponseDone(out) == [type |-> "response.done", output |-> out]

InboundEvents ==
    {SessionCreated, OtherEvent}
        \cup {ResponseDone(<<FunctionCall(fn, a)>>) :
                 fn \in FnNames, a \in ArgSet}

\* a message whose data JSON.parse rejects (line 468)
Garbage == [type |-> "<not JSON>", output |-> <<>>]

VARIABLES
    \* React state (current values)
    isSessionActive, events, dataChannel, functionAdded, functionCallOutput,
    speakingTime,
    \* refs
    peerConnection, intervalRef, audioElement,
    \* React bookkeeping
    rendered,       \* state values of the last committed render
    eventsDirty,    \* setEvents was called since the last commit
    mounted,        \* the component is mounted
    urgent,         \* a click's synchronous render is due
    navigating,     \* window.location.href was assigned: the page is leaving
    \* startSession invocations and the browser objects they create
    cur,            \* number of startSession invocations so far
    pos,            \* suspension point of each invocation
    pcs,            \* RTCPeerConnection of each invocation
    dcs,            \* readyState of each data channel
    listeners,      \* message/open listeners attached to the channel
    audioSrc,       \* srcObject of audioElement.current (0: none)
    intervals,      \* running setInterval timers
    timers,         \* pending setTimeout callbacks, in firing order
    monitors,       \* running checkAudioLevel loops, per captured channel
    cache,          \* localStorage
    \* observation
    hcount,         \* per log entry: times the handler processed it
    regSent,        \* per channel: registration messages sent on it
    created,        \* per channel: session.created received on it
    uncaught,       \* uncaught exceptions raised by callbacks
    alerts,         \* alert() dialogs shown
    followSent,     \* per step: response.create messages its timeouts sent
    regBefore,      \* per log entry: its channel carried the registration
                    \* when the entry was delivered
    stopped,        \* stopSession was called after the last startSession
    \* one checkAudioLevel loop followed sample by sample
    now,            \* Date.now(), in ms
    silenceStart,   \* the closure variable of the loop (0: null)
    sampling,       \* the loop has a frame requested
    fired,          \* times the loop detected the end of speech
    samples         \* the samples the loop took so far: time and average

vars == <<isSessionActive, events, dataChannel, functionAdded,
          functionCallOutput, speakingTime, peerConnection, intervalRef,
          audioElement, rendered, eventsDirty, mounted, urgent, navigating,
          cur, pos, pcs, dcs, listeners, audioSrc, intervals, timers,
          monitors, cache, hcount, regSent, created, uncaught, alerts,
          followSent, regBefore, stopped, now, silenceStart, sampling,
          fired, samples>>

audio == <<now, silenceStart, sampling, fired, samples>>

observed ==
    <<hcount, regSent, created, uncaught, alerts, followSent, regBefore>>

MonKinds == [dc : 0..MaxSessions, silent : BOOLEAN]

Snapshot ==
    [status |-> isSessionActive, dc |-> dataChannel, fa |-> functionAdded]

\* no render is scheduled: the committed render shows the current state
Stable == rendered = Snapshot /\ ~eventsDirty

Init ==
    /\ isSessionActive = DISCONNECTED
    /\ events = <<>>
    /\ dataChannel = NoDc
    /\ functionAdded = FALSE
    /\ functionCallOutput = "null"
    /\ speakingTime = 0
    /\ peerConnection = 0
    /\ intervalRef = 0
    /\ audioElement = 0
    /\ rendered = [status |-> DISCONNECTED, dc |-> NoDc, fa |-> FALSE]
    /\ eventsDirty = FALSE
    /\ mounted = TRUE
    /\ urgent = FALSE
    /\ navigating = FALSE
    /\ cur = 0
    /\ pos = [s \in Sids |-> "idle"]
    /\ pcs = [s \in Sids |-> "none"]
    /\ dcs = [s \in Sids |-> "none"]
    /\ listeners = [s \in Sids |-> FALSE]
    /\ audioSrc = 0
    /\ intervals = {}
    /\ timers = <<>>
    /\ monitors = [k \in MonKinds |-> 0]
    /\ cache = [k \in CacheKeys |-> Null]
    /\ hcount = <<>>
    /\ regSent = [s \in Sids |-> 0]
    /\ created = [s \in Sids |-> FALSE]
    /\ uncaught = 0
    /\ alerts = 0
    /\ followSent = [fn \in FnNames |-> 0]
    /\ regBefore = <<>>
    /\ stopped = FALSE
    /\ now = 1000
    /\ silenceStart = 0
    /\ sampling = FALSE
    /\ fired = 0
    /\ samples = <<>>

\* ------------------------------------------------------------ startSession
\* a catch block that leaves the status alone and shows nothing
CatchSwallows(s) ==
    /\ pos' = [pos EXCEPT ![s] = "failed"]
    /\ UNCHANGED <<isSessionActive, alerts>>

\* the catch block of startSession (lines 427-432)
Catch(s) ==
    /\ pos' = [pos EXCEPT ![s] = "failed"]
    /\ isSessionActive' = IF mounted THEN DISCONNECTED ELSE isSessionActive
    /\ alerts' = alerts + 1

\* click on Accept: startSession runs up to its first await (lines 361-365)
StartSession ==
    /\ ~urgent
    /\ ~navigating
    /\ mounted
    /\ rendered.status = DISCONNECTED
    /\ cur < MaxSessions
    /\ cur' = cur + 1
    /\ pos' = [pos EXCEPT ![cur + 1] = "token"]
    /\ isSessionActive' = CONNECTING
    /\ stopped' = FALSE
    /\ urgent' = TRUE
    /\ UNCHANGED navigating
    /\ UNCHANGED audio
    /\ UNCHANGED <<events, dataChannel, functionAdded, functionCallOutput,
                   speakingTime, peerConnection, intervalRef, audioElement,
                   rendered, eventsDirty, mounted, pcs, dcs, listeners,
                   audioSrc, intervals, timers, monitors, cache, observed>>

TokenOutcomes == {"ok", "unreachable", "notOk", "noSecret"}

\* the invocation s has issued its token request: fetch("/token") is called
\* before the first await (line 365)
TokenRequested(s) == pos[s] # "idle"

\* a startSession that creates the connection and the channel before it
\* looks at the token response
TokenDoneLate(s, outcome) ==
    /\ ~urgent
    /\ pos[s] = "token"
    /\ IF outcome = "ok"
       THEN /\ pos' = [pos EXCEPT ![s] = "mic"]
            /\ UNCHANGED <<isSessionActive, alerts, pcs, dcs>>
       ELSE /\ Catch(s)
            /\ pcs' = [pcs EXCEPT ![s] = "open"]
            /\ dcs' = [dcs EXCEPT ![s] = "connecting"]
    /\ UNCHANGED <<audio, followSent, regBefore>>
    /\ UNCHANGED <<urgent, navigating, events, dataChannel, functionAdded,
                   functionCallOutput, speakingTime, peerConnection,
                   intervalRef, audioElement, rendered, eventsDirty, mounted,
                   cur, listeners, audioSrc, intervals, timers, monitors,
                   cache, hcount, regSent, created, uncaught, stopped>>

\* the token request settles (lines 365-378)
TokenDone(s, outcome) ==
    /\ ~urgent
    /\ pos[s] = "token"
    /\ IF outcome = "ok"
       THEN /\ pos' = [pos EXCEPT ![s] = "mic"]
            /\ UNCHANGED <<isSessionActive, alerts>>
       ELSE Catch(s)
    /\ UNCHANGED <<audio, followSent, regBefore>>
    /\ UNCHANGED <<urgent, navigating, events, dataChannel, functionAdded,
                   functionCallOutput, speakingTime, peerConnection,
                   intervalRef, audioElement, rendered, eventsDirty, mounted,
                   cur, pcs, dcs, listeners, audioSrc, intervals, timers,
                   monitors, cache, hcount, regSent, created, uncaught,
                   stopped>>

\* the microphone prompt settles (lines 378-397)
MicDone(s, granted) ==
    /\ ~urgent
    /\ pos[s] = "mic"
    /\ IF granted
       THEN /\ pos' = [pos EXCEPT ![s] = "offer"]
            /\ pcs' = [pcs EXCEPT ![s] = "open"]
            /\ audioElement' = s
            /\ audioSrc' = 0
            /\ dcs' = [dcs EXCEPT ![s] = "connecting"]
            /\ dataChannel' = IF mounted THEN s ELSE dataChannel
            /\ UNCHANGED <<isSessionActive, alerts>>
       ELSE /\ Catch(s)
            /\ UNCHANGED <<pcs, audioElement, audioSrc, dcs, dataChannel>>
    /\ UNCHANGED <<audio, followSent, regBefore>>
    /\ UNCHANGED <<urgent, navigating, events, functionAdded,
                   functionCallOutput, speakingTime, peerConnection,
                   intervalRef, rendered, eventsDirty, mounted, cur,
                   listeners, intervals, timers, monitors, cache, hcount,
                   regSent, created, uncaught, stopped>>

\* createOffer / setLocalDescription settle (lines 397-403)
OfferDone(s, ok) ==
    /\ ~urgent
    /\ pos[s] = "offer"
    /\ IF ok
       THEN /\ pos' = [pos EXCEPT ![s] = "sdp"]
            /\ UNCHANGED <<isSessionActive, alerts>>
       ELSE Catch(s)
    /\ UNCHANGED <<audio, followSent, regBefore>>
    /\ UNCHANGED <<urgent, navigating, events, dataChannel, functionAdded,
                   functionCallOutput, speakingTime, peerConnection,
                   intervalRef, audioElement, rendered, eventsDirty, mounted,
                   cur, pcs, dcs, listeners, audioSrc, intervals, timers,
                   monitors, cache, hcount, regSent, created, uncaught,
                   stopped>>

\* the SDP exchange and setRemoteDescription settle (lines 403-425); the
\* track event of setRemoteDescription runs pc.ontrack (line 387)
SdpDone(s, ok) ==
    /\ ~urgent
    /\ pos[s] = "sdp"
    /\ IF ok
       THEN /\ pos' = [pos EXCEPT ![s] = "done"]
            /\ audioSrc' = s
            /\ peerConnection' = s
            /\ intervalRef' = s
            /\ intervals' = intervals \cup {s}
            /\ UNCHANGED <<isSessionActive, alerts>>
       ELSE /\ Catch(s)
            /\ UNCHANGED <<audioSrc, peerConnection, intervalRef, intervals>>
    /\ UNCHANGED <<audio, followSent, regBefore>>
    /\ UNCHANGED <<urgent, navigating, events, dataChannel, functionAdded,
                   functionCallOutput, speakingTime, audioElement, rendered,
                   eventsDirty, mounted, cur, pcs, dcs, listeners, timers,
                   monitors, cache, hcount, regSent, created, uncaught,
                   stopped>>

\* ------------------------------------------------------------- stopSession
\* readyState of the channels after dataChannel.close() on channel d and
\* close() on peer connection p (closing a connection closes its channel)
ClosedChannels(d, p) ==
    [s \in Sids |->
        IF (s = d \/ s = p) /\ dcs[s] # "none" THEN "closed" ELSE dcs[s]]

\* stopSession as closed over a render whose dataChannel was d (lines 435-446)
StopSession(d) ==
    /\ dcs' = ClosedChannels(d, peerConnection)
    /\ pcs' = [s \in Sids |-> IF s = peerConnection THEN "closed" ELSE pcs[s]]
    /\ isSessionActive' = IF mounted THEN DISCONNECTED ELSE isSessionActive
    /\ dataChannel' = IF mounted THEN NoDc ELSE dataChannel
    /\ peerConnection' = 0
    /\ stopped' = TRUE

\* click on the end-call button, rendered while connected (lines 657-668)
StopClick ==
    /\ ~urgent
    /\ ~navigating
    /\ mounted
    /\ rendered.status = CONNECTED
    /\ StopSession(rendered.dc)
    /\ urgent' = TRUE
    /\ UNCHANGED navigating
    /\ UNCHANGED audio
    /\ UNCHANGED <<events, functionAdded, functionCallOutput, speakingTime,
                   intervalRef, audioElement, rendered, eventsDirty, mounted,
                   cur, pos, listeners, audioSrc, intervals, timers,
                   monitors, cache, observed>>

\* ------------------------------------------------- data channel listeners
\* the channel opens; the open listener runs if attached (lines 473-476)
DcOpen(s) ==
    /\ ~urgent
    /\ pos[s] = "done"
    /\ pcs[s] = "open"
    /\ dcs[s] = "connecting"
    /\ dcs' = [dcs EXCEPT ![s] = "open"]
    /\ IF listeners[s] /\ mounted
       THEN /\ isSessionActive' = CONNECTING
            /\ events' = <<>>
            /\ hcount' = <<>>
            /\ regBefore' = <<>>
            /\ eventsDirty' = TRUE
       ELSE UNCHANGED <<isSessionActive, events, hcount, regBefore,
                        eventsDirty>>
    /\ UNCHANGED <<audio, followSent>>
    /\ UNCHANGED <<urgent, navigating, dataChannel, functionAdded,
                   functionCallOutput, speakingTime, peerConnection,
                   intervalRef, audioElement, rendered, mounted, cur, pos,
                   pcs, listeners, audioSrc, intervals, timers, monitors,
                   cache, regSent, created, uncaught, alerts, stopped>>

\* a message arrives on an open channel with the listener attached
\* (lines 465-470).  JSON.parse runs inside the state updater: when it
\* throws, the update fails while React applies it and React unmounts the
\* tree (the unmount cleanup of lines 448-455 clears the interval).
DcMessage(s, ev) ==
    /\ ~urgent
    /\ mounted
    /\ dcs[s] = "open"
    /\ listeners[s]
    /\ Len(events) < MaxEvents
    /\ IF ev = Garbage
       THEN /\ mounted' = FALSE
            /\ uncaught' = uncaught + 1
            /\ intervals' = intervals \ {intervalRef}
            /\ UNCHANGED <<events, hcount, regBefore, eventsDirty, created>>
       ELSE /\ events' = <<ev>> \o events
            /\ hcount' = <<0>> \o hcount
            /\ regBefore' = <<regSent[s] >= 1>> \o regBefore
            /\ eventsDirty' = TRUE
            /\ created' =
                 [created EXCEPT ![s] = @ \/ ev.type = "session.created"]
            /\ UNCHANGED <<mounted, uncaught, intervals>>
    /\ UNCHANGED <<audio, followSent>>
    /\ UNCHANGED <<urgent, navigating, isSessionActive, dataChannel,
                   functionAdded, functionCallOutput, speakingTime,
                   peerConnection, intervalRef, audioElement, rendered,
                   cur, pos, pcs, dcs, listeners, audioSrc, timers,
                   monitors, cache, regSent, alerts, stopped>>

\* the one-second interval of session s ticks (lines 423-425)
Tick(s) ==
    /\ ~urgent
    /\ mounted
    /\ s \in intervals
    /\ speakingTime < MaxTime
    /\ speakingTime' = speakingTime + 1
    /\ UNCHANGED audio
    /\ UNCHANGED <<urgent, navigating, isSessionActive, events, dataChannel,
                   functionAdded, functionCallOutput, peerConnection,
                   intervalRef, audioElement, rendered, eventsDirty, mounted,
                   cur, pos, pcs, dcs, listeners, audioSrc, intervals,
                   timers, monitors, cache, observed, stopped>>

\* ------------------------------------------------------------------ render
\* names of the function calls of an output list the handler reacts to
\* (lines 502-506, 535-538, 566-569), in list order
RECURSIVE Calls(_)
Calls(out) ==
    IF out = <<>> THEN <<>>
    ELSE (IF Head(out).type = "function_call" /\ Head(out).name \in FnNames
          THEN <<Head(out)>> ELSE <<>>) \o Calls(Tail(out))

\* the calls the handler completes: those before the first call whose
\* arguments JSON.parse rejects; the exception leaves forEach and the effect
\* (lines 502-633)
RECURSIVE Completed(_)
Completed(cs) ==
    IF cs = <<>> \/ JSONParse(Head(cs).arguments).throws THEN <<>>
    ELSE <<Head(cs)>> \o Completed(Tail(cs))

\* a cache that keeps the first value written under a key
RECURSIVE StoredFirstWins(_, _)
StoredFirstWins(c, cs) ==
    IF cs = <<>> THEN c
    ELSE StoredFirstWins(
             IF c[CacheKey(Head(cs).name)] # Null THEN c
             ELSE [c EXCEPT ![CacheKey(Head(cs).name)] =
                       Result(Head(cs).name, Head(cs).arguments, now)],
             Tail(cs))

\* localStorage after the handler stored the calls cs (lines 512, 551, 579)
RECURSIVE Stored(_, _)
Stored(c, cs) ==
    IF cs = <<>> THEN c
    ELSE Stored([c EXCEPT ![CacheKey(Head(cs).name)] =
                     Result(Head(cs).name, Head(cs).arguments, now)],
                Tail(cs))

\* a handler that starts no timeout
ScheduledNone(cs, d) == <<>>

\* the timeouts the handler starts for the calls cs, closed over channel d
\* (lines 523, 554, 582)
RECURSIVE Scheduled(_, _)
Scheduled(cs, d) ==
    IF cs = <<>> THEN <<>>
    ELSE <<[fn |-> Head(cs).name, dc |-> d]>> \o Scheduled(Tail(cs), d)

\* functionCallOutput after the handler processed the calls cs (line 520)
RECURSIVE LastReview(_, _)
LastReview(f, cs) ==
    IF cs = <<>> THEN f
    ELSE LastReview(IF Head(cs).name = REVIEW THEN REVIEW ELSE f, Tail(cs))

\* the listener effect runs when dataChannel changed (lines 462-478)
RunsListenerEffect(n, o) == n.dc # o.dc

\* the status effect runs when functionAdded or the status changed
\* (lines 481-485)
RunsStatusEffect(n, o) == n.fa # o.fa \/ n.status # o.status

\* the registration/handler effect runs when events, functionAdded or
\* dataChannel changed (lines 488-635)
RunsHandlerEffect(n, o) == eventsDirty \/ n.fa # o.fa \/ n.dc # o.dc

\* the reset effect runs when the status changed (lines 638-643)
RunsResetEffect(n, o) == n.status # o.status

\* the handler effect reaches the registration branch (lines 489-495)
Registers(n, o) ==
    /\ RunsHandlerEffect(n, o)
    /\ Len(events) > 0
    /\ ~n.fa
    /\ events[Len(events)].type = "session.created"

\* RTCDataChannel.send throws unless the channel is open (lines 493, 524)
SendThrows(d) == d # NoDc /\ dcs[d] # "open"

\* the function calls the handler effect processes in this commit
\* (lines 497-502)
Handled(n, o) ==
    IF /\ RunsHandlerEffect(n, o)
       /\ Len(events) > 0
       /\ events[1].type = "response.done"
    THEN Calls(events[1].output)
    ELSE <<>>

\* listeners after the listener effect of a commit with dataChannel d
Attached(n, o) ==
    [s \in Sids |-> listeners[s] \/ (RunsListenerEffect(n, o) /\ n.dc = s)]

\* React commits the current state and runs the effects whose dependencies
\* changed.  An exception thrown by an effect (send on a channel that is not
\* open, JSON.parse of malformed arguments) is not caught: React unmounts
\* the tree, and the unmount cleanup clears the interval (lines 448-455).
Render ==
    /\ mounted
    /\ ~Stable
    /\ LET n == Snapshot
           o == rendered
           all == Handled(n, o)
           cs == Completed(all)
           sendCrash == Registers(n, o) /\ SendThrows(n.dc)
       IN  /\ rendered' = n
           /\ eventsDirty' = FALSE
           /\ urgent' = FALSE
           /\ UNCHANGED navigating
           /\ listeners' = Attached(n, o)
           /\ IF sendCrash
              THEN /\ mounted' = FALSE
                   /\ uncaught' = uncaught + 1
                   /\ intervals' = intervals \ {intervalRef}
                   /\ UNCHANGED <<isSessionActive, functionAdded,
                                  functionCallOutput, regSent, cache, timers,
                                  hcount>>
              ELSE /\ Len(timers) + Len(cs) <= MaxTimers
                   /\ isSessionActive' =
                        IF /\ RunsStatusEffect(n, o)
                           /\ n.fa
                           /\ n.status = CONNECTING
                        THEN CONNECTED ELSE isSessionActive
                   /\ functionAdded' =
                        IF RunsResetEffect(n, o) /\ n.status = DISCONNECTED
                        THEN FALSE
                        ELSE IF Registers(n, o) THEN TRUE ELSE functionAdded
                   /\ functionCallOutput' =
                        IF RunsResetEffect(n, o) /\ n.status = DISCONNECTED
                        THEN "null"
                        ELSE LastReview(functionCallOutput, cs)
                   /\ regSent' =
                        IF Registers(n, o) /\ n.dc # NoDc
                        THEN [regSent EXCEPT ![n.dc] = @ + 1] ELSE regSent
                   /\ cache' = Stored(cache, cs)
                   /\ timers' = timers \o Scheduled(cs, n.dc)
                   /\ hcount' = IF cs = <<>> THEN hcount
                                ELSE [hcount EXCEPT ![1] = @ + 1]
                   /\ IF cs # all
                      THEN /\ mounted' = FALSE
                           /\ uncaught' = uncaught + 1
                           /\ intervals' = intervals \ {intervalRef}
                      ELSE UNCHANGED <<mounted, uncaught, intervals>>
    /\ UNCHANGED <<audio, followSent, regBefore>>
    /\ UNCHANGED <<events, dataChannel, speakingTime, peerConnection,
                   intervalRef, audioElement, cur, pos, pcs, dcs, audioSrc,
                   monitors, created, alerts, stopped>>

\* ------------------------------------------------------------------ timers
RECURSIVE Total(_, _)
Total(f, S) ==
    IF S = {} THEN 0
    ELSE LET x == CHOOSE y \in S : TRUE IN f[x] + Total(f, S \ {x})

\* number of running checkAudioLevel loops
MonitorCount == Total(monitors, MonKinds)

\* the oldest pending timeout fires (lines 523-532, 554-563, 582-631)
TimerFire(quiet) ==
    /\ ~urgent
    /\ timers # <<>>
    /\ LET t == Head(timers)
           arms == t.fn = CONFIRM /\ ~SendThrows(t.dc)
           mediaThrows == audioElement = 0 \/ audioSrc = 0
           k == [dc |-> t.dc, silent |-> quiet]
       IN  /\ timers' = Tail(timers)
           /\ uncaught' = IF SendThrows(t.dc) \/ (arms /\ mediaThrows)
                          THEN uncaught + 1 ELSE uncaught
           /\ followSent' =
                IF t.dc # NoDc /\ ~SendThrows(t.dc)
                THEN [followSent EXCEPT ![t.fn] = @ + 1] ELSE followSent
           /\ IF arms /\ ~mediaThrows
              THEN /\ MonitorCount < MaxMonitors
                   /\ monitors' = [monitors EXCEPT ![k] = @ + 1]
              ELSE UNCHANGED monitors
    /\ UNCHANGED <<audio, regBefore>>
    /\ UNCHANGED <<isSessionActive, events, dataChannel, functionAdded,
                   functionCallOutput, speakingTime, peerConnection,
                   intervalRef, audioElement, rendered, eventsDirty, urgent,
                   navigating, mounted, cur, pos, pcs, dcs, listeners,
                   audioSrc, intervals, cache, hcount, regSent, created,
                   alerts, stopped>>

\* one animation frame of a checkAudioLevel loop armed over channel d
\* (lines 606-625): quiet is average < SILENCE_THRESHOLD, elapsed is
\* Date.now() - silenceStart > SILENCE_DURATION
MonitorFrame(k, quiet, elapsed) ==
    /\ ~urgent
    /\ monitors[k] > 0
    /\ IF quiet /\ k.silent /\ elapsed
       THEN /\ monitors' = [monitors EXCEPT ![k] = @ - 1]
            /\ StopSession(k.dc)
            /\ navigating' = TRUE
       ELSE /\ monitors' =
                [monitors EXCEPT ![k] = @ - 1,
                                 ![[dc |-> k.dc, silent |-> quiet]] = @ + 1]
            /\ UNCHANGED <<dcs, pcs, isSessionActive, dataChannel,
                           peerConnection, stopped, navigating>>
    /\ UNCHANGED audio
    /\ UNCHANGED <<events, functionAdded, functionCallOutput, speakingTime,
                   intervalRef, audioElement, rendered, eventsDirty, urgent,
                   mounted, cur, pos, listeners, audioSrc, intervals, timers,
                   cache, observed>>

\* -------------------------------------------------------------------- next
Next ==
    \/ Render
    \/ StartSession
    \/ StopClick
    \/ \E s \in Sids, oc \in TokenOutcomes : TokenDone(s, oc)
    \/ \E s \in Sids, g \in BOOLEAN : MicDone(s, g)
    \/ \E s \in Sids, ok \in BOOLEAN : OfferDone(s, ok)
    \/ \E s \in Sids, ok \in BOOLEAN : SdpDone(s, ok)
    \/ \E s \in Sids : DcOpen(s)
    \/ \E s \in Sids, ev \in InboundEvents : DcMessage(s, ev)
    \/ \E s \in Sids : Tick(s)
    \/ \E q \in BOOLEAN : TimerFire(q)
    \/ \E k \in MonKinds, q, e \in BOOLEAN : MonitorFrame(k, q, e)

Spec == Init /\ [][Next]_vars

\* the session lifecycle alone: the inbound events carry no function call,
\* so no handler timeout is started and no audio monitor is armed
LifecycleEvents == {SessionCreated, OtherEvent}

NextLifecycle ==
    \/ Render
    \/ StartSession
    \/ StopClick
    \/ \E s \in Sids, oc \in TokenOutcomes : TokenDone(s, oc)
    \/ \E s \in Sids, g \in BOOLEAN : MicDone(s, g)
    \/ \E s \in Sids, ok \in BOOLEAN : OfferDone(s, ok)
    \/ \E s \in Sids, ok \in BOOLEAN : SdpDone(s, ok)
    \/ \E s \in Sids : DcOpen(s)
    \/ \E s \in Sids, ev \in LifecycleEvents : DcMessage(s, ev)
    \/ \E s \in Sids : Tick(s)

SpecLifecycle == Init /\ [][NextLifecycle]_vars

\* the lifecycle with the scheduling the browser guarantees: a scheduled
\* render commits, a pending promise of startSession settles, a running
\* interval ticks.  Clicks, the opening of the channel and the messages of the
\* remote peer are not guaranteed to happen.
SpecLifecycleFair ==
    /\ SpecLifecycle
    /\ WF_vars(Render)
    /\ \A s \in Sids :
          /\ WF_vars(\E oc \in TokenOutcomes : TokenDone(s, oc))
          /\ WF_vars(\E g \in BOOLEAN : MicDone(s, g))
          /\ WF_vars(\E ok \in BOOLEAN : OfferDone(s, ok))
          /\ WF_vars(\E ok \in BOOLEAN : SdpDone(s, ok))
          /\ WF_vars(Tick(s))

\* ------------------------------------------------- payloads of the calls
\* a second passes between two callbacks
TimePasses ==
    /\ ~urgent
    /\ now < 1000 * (MaxSeconds + 1)
    /\ now' = now + 1000
    /\ UNCHANGED <<silenceStart, sampling, fired, samples>>
    /\ UNCHANGED <<isSessionActive, events, dataChannel, functionAdded,
                   functionCallOutput, speakingTime, peerConnection,
                   intervalRef, audioElement, rendered, eventsDirty, urgent,
                   navigating, mounted, cur, pos, pcs, dcs, listeners,
                   audioSrc, intervals, timers, monitors, cache, observed,
                   stopped>>

\* inbound events with every kind of arguments string, a response.done whose
\* output list holds a malformed call before a well-formed one, and a
\* message that is not JSON
PayloadEvents ==
    {SessionCreated, Garbage,
     ResponseDone(<<FunctionCall(REVIEW, NotJson),
                    FunctionCall(ADJUST, TooHard)>>)}
        \cup {ResponseDone(<<FunctionCall(fn, a)>>) :
                 fn \in FnNames, a \in PayloadArgs}

\* a session that starts without a failure and receives PayloadEvents; it
\* ends when the audio monitor detects silence
NextPayload ==
    \/ Render
    \/ StartSession
    \/ \E s \in Sids : TokenDone(s, "ok")
    \/ \E s \in Sids : MicDone(s, TRUE)
    \/ \E s \in Sids : OfferDone(s, TRUE)
    \/ \E s \in Sids : SdpDone(s, TRUE)
    \/ \E s \in Sids : DcOpen(s)
    \/ \E s \in Sids, ev \in PayloadEvents : DcMessage(s, ev)
    \/ \E q \in BOOLEAN : TimerFire(q)
    \/ \E k \in MonKinds, q, e \in BOOLEAN : MonitorFrame(k, q, e)
    \/ TimePasses

SpecPayload == Init /\ [][NextPayload]_vars

\* one session that starts without a failure and receives well-formed
\* calls of every step; it ends when the audio monitor detects silence
CacheEvents ==
    {ResponseDone(<<FunctionCall(fn, a)>>) :
        fn \in FnNames, a \in {TooHard, Stamped}}

NextCache ==
    \/ Render
    \/ StartSession
    \/ \E s \in Sids : TokenDone(s, "ok")
    \/ \E s \in Sids : MicDone(s, TRUE)
    \/ \E s \in Sids : OfferDone(s, TRUE)
    \/ \E s \in Sids : SdpDone(s, TRUE)
    \/ \E s \in Sids : DcOpen(s)
    \/ \E s \in Sids, ev \in CacheEvents : DcMessage(s, ev)
    \/ \E q \in BOOLEAN : TimerFire(q)
    \/ \E k \in MonKinds, q, e \in BOOLEAN : MonitorFrame(k, q, e)
    \/ TimePasses

SpecCache == Init /\ [][NextCache]_vars

\* sessions that start without a failure and receive session.created and
\* review calls only
ReviewEvents ==
    {SessionCreated, ResponseDone(<<FunctionCall(REVIEW, TooHard)>>)}

NextReview ==
    \/ Render
    \/ StartSession
    \/ StopClick
    \/ \E s \in Sids : TokenDone(s, "ok")
    \/ \E s \in Sids : MicDone(s, TRUE)
    \/ \E s \in Sids : OfferDone(s, TRUE)
    \/ \E s \in Sids : SdpDone(s, TRUE)
    \/ \E s \in Sids : DcOpen(s)
    \/ \E s \in Sids, ev \in ReviewEvents : DcMessage(s, ev)
    \/ \E q \in BOOLEAN : TimerFire(q)

SpecReview == Init /\ [][NextReview]_vars

\* ------------------------------------------------- checkAudioLevel in time
\* values of the average of the frequency bins (line 608): below, at and
\* above SILENCE_THRESHOLD
Averages == {9, 10, 255}

\* time between two animation frames, in ms
FrameGaps == {100, 1900, 2000}

\* a loop that keeps its silence-start timestamp over a loud sample
CheckAudioLevelKeeps(ss, average, t) ==
    IF average < SILENCE_THRESHOLD
    THEN IF ss = 0 THEN [silenceStart |-> t, fire |-> FALSE]
         ELSE IF t - ss > SILENCE_DURATION
              THEN [silenceStart |-> ss, fire |-> TRUE]
              ELSE [silenceStart |-> ss, fire |-> FALSE]
    ELSE [silenceStart |-> ss, fire |-> FALSE]

\* one run of checkAudioLevel (lines 606-625) with silenceStart = ss, the
\* sampled average and Date.now() = t: the new silenceStart, and whether the
\* end of speech was detected (no further frame is requested then)
CheckAudioLevel(ss, average, t) ==
    IF average < SILENCE_THRESHOLD
    THEN IF ss = 0 THEN [silenceStart |-> t, fire |-> FALSE]
         ELSE IF t - ss > SILENCE_DURATION
              THEN [silenceStart |-> ss, fire |-> TRUE]
              ELSE [silenceStart |-> ss, fire |-> FALSE]
    ELSE [silenceStart |-> 0, fire |-> FALSE]

\* the loop samples at time t: lines 606-625, with stopSession and the
\* navigation of lines 615-618 when the end of speech is detected
Sample(average, t) ==
    LET r == CheckAudioLevel(silenceStart, average, t)
    IN  /\ now' = t
        /\ samples' = Append(samples, [t |-> t, average |-> average])
        /\ silenceStart' = r.silenceStart
        /\ sampling' = ~r.fire
        /\ fired' = IF r.fire THEN fired + 1 ELSE fired
        /\ IF r.fire
           THEN /\ StopSession(rendered.dc)
                /\ navigating' = TRUE
           ELSE UNCHANGED <<dcs, pcs, isSessionActive, dataChannel,
                            peerConnection, stopped, navigating>>
        /\ UNCHANGED <<events, functionAdded, functionCallOutput,
                       speakingTime, intervalRef, audioElement, rendered,
                       eventsDirty, urgent, mounted, cur, pos, listeners,
                       audioSrc, intervals, timers, monitors, cache,
                       observed>>

\* the first call of checkAudioLevel, made by the timeout that set the
\* monitoring up (line 627)
ArmTerminator(average) ==
    /\ ~sampling
    /\ fired = 0
    /\ samples = <<>>
    /\ Sample(average, now)

\* a requested animation frame runs checkAudioLevel (line 624)
AnimationFrame(average, gap) ==
    /\ sampling
    /\ Len(samples) < MaxFrames
    /\ Sample(average, now + gap)

NextTerminator ==
    \/ \E a \in Averages : ArmTerminator(a)
    \/ \E a \in Averages, g \in FrameGaps : AnimationFrame(a, g)

SpecTerminator == Init /\ [][NextTerminator]_vars

\* ------------------------------------------------------------------ claims
\* position of a step in the choreography
StepIndex(fn) == IF fn = REVIEW THEN 1 ELSE IF fn = ADJUST THEN 2 ELSE 3

\* names of the function calls of the log entries the handler processed
HandledNames ==
    {fn \in FnNames :
        \E i \in 1..Len(events) :
            /\ hcount[i] > 0
            /\ \E j \in 1..Len(events[i].output) :
                  /\ events[i].output[j].type = "function_call"
                  /\ events[i].output[j].name = fn}

\* engine state the handled calls amount to: 0 Awaiting Review (or Idle),
\* 1 Awaiting Adjustment, 2 Awaiting Confirmation, 3 Closing
Stage(S) ==
    IF S = {} THEN 0
    ELSE IF S = {REVIEW} THEN 1
    ELSE IF S = {REVIEW, ADJUST} THEN 2
    ELSE 3

RECURSIVE InOrder(_, _)
InOrder(stage, cs) ==
    IF cs = <<>> THEN TRUE
    ELSE StepIndex(Head(cs).name) = stage + 1 /\ InOrder(stage + 1, Tail(cs))

\* the commit handled the newest log entry
HandlesNewest == events' = events /\ hcount' # hcount

\* C1: every handled function call is the next step of the choreography
\* review -> adjust -> confirm: no step is handled before its predecessor
\* was, and none is handled again after a later one.
C1_StepsInOrder ==
    [][HandlesNewest =>
          InOrder(Stage(HandledNames), Calls(events[1].output))]_vars

\* log entries i, j carry a function call of the same name
SameCall(i, j) ==
    \E a \in 1..Len(events[i].output), b \in 1..Len(events[j].output) :
        /\ events[i].output[a].type = "function_call"
        /\ events[j].output[b].type = "function_call"
        /\ events[i].output[a].name = events[j].output[b].name

\* C2: a response.done delivered after one with the same function name was
\* handled causes no second cache write and no second follow-up timer.
C2_DuplicateIgnored ==
    \A i, j \in 1..Len(events) :
        (i < j /\ SameCall(i, j) /\ hcount[j] > 0) => hcount[i] = 0

\* C3: once no render is pending, every delivered response.done that
\* carries a function call was handled exactly once.
C3_HandledExactlyOnce ==
    Stable =>
        \A i \in 1..Len(events) :
            (events[i].type = "response.done"
                /\ Calls(events[i].output) # <<>>) => hcount[i] = 1

\* C4: a channel never carries two registrations, and once no render is
\* pending every channel that received session.created carried exactly one.
C4_RegisteredOncePerSession ==
    \A s \in Sids :
        /\ regSent[s] <= 1
        /\ (Stable /\ mounted /\ created[s]) => regSent[s] = 1

\* C5: the status is Connected only if the registration was sent on the
\* data channel of the latest started session.
C5_ConnectedAfterRegistration ==
    isSessionActive = CONNECTED => (cur > 0 /\ regSent[cur] >= 1)

\* a step in which stopSession ran: the end-call click, or a monitor that
\* detected the end of speech
StopStep ==
    \/ StopClick
    \/ \E k \in MonKinds : k.silent /\ MonitorFrame(k, TRUE, TRUE)

\* C6: when stopSession returns the status is Disconnected and nothing is
\* live: no open connection or channel, no interval, no pending timeout,
\* no audio monitor.
C6_StopLeavesNothing ==
    [][StopStep =>
          /\ isSessionActive' = DISCONNECTED
          /\ peerConnection' = 0
          /\ dataChannel' = NoDc
          /\ \A s \in Sids : pcs'[s] # "open" /\ dcs'[s] \in {"none", "closed"}
          /\ intervals' = {}
          /\ timers' = <<>>
          /\ MonitorCount' = 0]_vars

\* no startSession invocation is suspended at an await
NoStartInFlight == \A s \in Sids : pos[s] \in {"idle", "done", "failed"}

\* C7: in the stable state after a stop the per-session state is cleared:
\* empty event log, functionAdded false, functionCallOutput null, no
\* running duration interval.
C7_StopClearsState ==
    (stopped /\ mounted /\ Stable /\ NoStartInFlight) =>
        /\ events = <<>>
        /\ functionAdded = FALSE
        /\ functionCallOutput = "null"
        /\ intervals = {}

\* C8: between a stop and the next start nothing revives the session: no
\* peer connection is installed, no interval is started and the status
\* stays Disconnected, also when a startSession was suspended at the stop.
C8_StopCancelsStart ==
    [][(stopped /\ stopped' /\ mounted') =>
          /\ peerConnection' = 0
          /\ intervals' \subseteq intervals
          /\ isSessionActive' = DISCONNECTED]_vars

\* C9: a timeout that fires after stopSession raises no error and arms no
\* audio monitor.
C9_LateTimerIsNoOp ==
    [][(stopped /\ \E q \in BOOLEAN : TimerFire(q)) =>
          /\ uncaught' = uncaught
          /\ monitors' = monitors]_vars

\* a startSession invocation fails in this step
Fails(s) == pos[s] \in {"token", "mic", "offer", "sdp"} /\ pos'[s] = "failed"

NothingCreated(s) ==
    /\ pcs[s] = "none"
    /\ dcs[s] = "none"
    /\ s \notin intervals
    /\ audioElement # s
    /\ peerConnection # s
    /\ dataChannel # s

\* C11: when the token endpoint answers with a non-success status while the
\* component is mounted, startSession ends at once with the status
\* Disconnected and one alert, without having asked for the microphone or
\* created a peer connection, a data channel or the duration interval; and
\* an invocation that ended this way never creates them later.
C11_TokenFailureCreatesNothing ==
    [][\A s \in Sids :
          /\ (TokenDone(s, "notOk") /\ mounted) =>
                /\ isSessionActive' = DISCONNECTED
                /\ alerts' = alerts + 1
                /\ pos'[s] = "failed"
                /\ NothingCreated(s)'
          /\ (pos[s] = "failed" /\ NothingCreated(s)) =>
                (pos'[s] = "failed" /\ NothingCreated(s)')]_vars

\* a second start failed at the token request after a first start had
\* created its connection
C11_Witness ==
    /\ cur = 2
    /\ pos[2] = "failed"
    /\ NothingCreated(2)
    /\ pcs[1] # "none"
    /\ mounted
    /\ isSessionActive = DISCONNECTED
    /\ alerts >= 1

\* C12: under fair scheduling of the pending callbacks the status never
\* stays Connecting forever: from every state with status Connecting a state
\* with status Connected or Disconnected follows, also when the channel
\* never opens or session.created is never the oldest entry of the log.
C12_ConnectingEnds ==
    (isSessionActive = CONNECTING) ~>
        (isSessionActive \in {CONNECTED, DISCONNECTED})

\* duration of the run of below-threshold samples that ends the samples
\* tr: time from the first sample of the run to the last sample (0 when
\* the last sample is at or above the threshold)
RECURSIVE QuietRun(_)
QuietRun(tr) ==
    IF tr = <<>> \/ tr[Len(tr)].average >= SILENCE_THRESHOLD THEN 0
    ELSE LET rest == SubSeq(tr, 1, Len(tr) - 1)
         IN  IF rest = <<>> \/ rest[Len(rest)].average >= SILENCE_THRESHOLD
             THEN 0
             ELSE QuietRun(rest) + (tr[Len(tr)].t - rest[Len(rest)].t)

\* C13: once the loop is armed, a run of below-threshold samples that
\* lasts at least SILENCE_DURATION ms makes it fire exactly once and stop
\* sampling; it never fires a second time.
C13_FiresOnceAfterSilence ==
    /\ fired <= 1
    /\ fired = 1 => ~sampling
    /\ QuietRun(samples) >= SILENCE_DURATION => (fired = 1 /\ ~sampling)

\* C14: the loop fires only at the end of a run of below-threshold samples
\* that lasted at least SILENCE_DURATION ms, and every sample at or above
\* the threshold clears the silence-start timestamp.
C14_NoFireOnShortSilence ==
    [][/\ fired' # fired => QuietRun(samples') >= SILENCE_DURATION
       /\ (samples' # samples
             /\ samples'[Len(samples')].average >= SILENCE_THRESHOLD)
            => silenceStart' = 0]_vars

\* two dips of 1900 ms separated by one loud sample were sampled and the
\* loop did not fire
C14_Witness ==
    /\ fired = 0
    /\ sampling
    /\ \E i \in 1..Len(samples) :
          /\ i + 4 <= Len(samples)
          /\ samples[i].average < SILENCE_THRESHOLD
          /\ samples[i + 1].average < SILENCE_THRESHOLD
          /\ samples[i + 1].t - samples[i].t = 1900
          /\ samples[i + 2].average >= SILENCE_THRESHOLD
          /\ samples[i + 3].average < SILENCE_THRESHOLD
          /\ samples[i + 4].average < SILENCE_THRESHOLD
          /\ samples[i + 4].t - samples[i + 3].t = 1900

\* the calls named fn that the handler completes in a commit taken now
\* (none when the registration of the same commit throws first)
WritesOf(fn) ==
    IF Registers(Snapshot, rendered) /\ SendThrows(Snapshot.dc) THEN <<>>
    ELSE SelectSeq(Completed(Handled(Snapshot, rendered)),
                   LAMBDA c : c.name = fn)

\* values of Date.now() a write can happen at
WriteTimes == {1000 * i : i \in 1..(MaxSeconds + 1)}

RoundTrips(fn, obj, payload, t) ==
    /\ "timestamp" \in DOMAIN obj
    /\ obj["timestamp"] = ToISOString(t)
    /\ IF fn = REVIEW
       THEN /\ DOMAIN obj = {"timestamp", "feedback"}
            /\ obj["feedback"] = payload
       ELSE /\ DOMAIN obj = {"timestamp"} \cup DOMAIN payload
            /\ \A f \in DOMAIN payload \ {"timestamp"} : obj[f] = payload[f]

\* C16: reading a key right after a handler wrote it returns the fields of
\* the payload together with a timestamp field that is the time of the
\* write, for every payload, one with a field named timestamp included.
C16_CacheRoundTrip ==
    [][\A fn \in FnNames :
          (Render /\ WritesOf(fn) # <<>>) =>
              RoundTrips(fn, cache'[CacheKey(fn)],
                         JSONParse(WritesOf(fn)[Len(WritesOf(fn))].arguments)
                             .value,
                         now)]_vars

\* the review call of the scenario
ReviewTooHard == ResponseDone(<<FunctionCall(REVIEW, TooHard)>>)

\* the first session started without failure and is live; session.created
\* was delivered first, and the review call after the registration was sent
Scenario ==
    /\ cur = 1
    /\ pos[1] = "done"
    /\ dcs[1] = "open"
    /\ mounted
    /\ ~stopped
    /\ events = <<ReviewTooHard, SessionCreated>>
    /\ regBefore = <<TRUE, FALSE>>

\* C17: in the first session, once session.created is the first event
\* delivered and no render is pending, the registration was sent once; when
\* the review call {"user_feedback":"too hard"} is delivered after that,
\* it is handled once, lastReviewPlan holds
\* {timestamp, feedback: {user_feedback: "too hard"}}, and once its timeout
\* fired exactly one follow-up (the one of the review step) was sent.
C17_ReviewScenario ==
    /\ ( /\ cur = 1
         /\ dcs[1] = "open"
         /\ mounted
         /\ ~stopped
         /\ Stable
         /\ events # <<>>
         /\ events[Len(events)] = SessionCreated ) => regSent[1] = 1
    /\ Scenario =>
          /\ regSent[1] = 1
          /\ hcount[1] <= 1
          /\ followSent[REVIEW] <= 1
          /\ followSent[ADJUST] = 0
          /\ followSent[CONFIRM] = 0
          /\ Stable =>
                /\ hcount[1] = 1
                /\ \E t \in WriteTimes :
                      cache[CacheKey(REVIEW)] =
                          [timestamp |-> ToISOString(t),
                           feedback |-> [user_feedback |-> "too hard"]]
                /\ timers = <<>> => followSent[REVIEW] = 1

\* the scenario ran to its end: connected, the review cached, the timeout
\* fired and its follow-up sent
C17_Witness ==
    /\ Scenario
    /\ Stable
    /\ isSessionActive = CONNECTED
    /\ timers = <<>>
    /\ followSent[REVIEW] = 1
    /\ cache[CacheKey(REVIEW)] # Null

\* a send on channel d cannot go out: there is no channel, or it is not open
SendFails(d) == d = NoDc \/ dcs[d] # "open"

\* C18: a send attempted while the data channel is absent or not open is
\* dropped (nothing is sent, nothing stays queued) and raises no uncaught
\* error, be it the send of a fired timeout or the registration of a
\* commit; the component stays mounted and its choreography state is kept.
C18_FailedSendDropped ==
    [][/\ ((\E q \in BOOLEAN : TimerFire(q)) /\ SendFails(Head(timers).dc))
            => /\ followSent' = followSent
               /\ timers' = Tail(timers)
               /\ (SendThrows(Head(timers).dc) \/ Head(timers).fn # CONFIRM)
                     => uncaught' = uncaught
       /\ (Render /\ Registers(Snapshot, rendered) /\ SendFails(Snapshot.dc))
            => /\ regSent' = regSent
               /\ uncaught' = uncaught
               /\ mounted']_vars

\* the calls a commit taken now finds in the newest response.done
NewestCalls == Handled(Snapshot, rendered)

\* C19: a malformed inbound event is dropped.  A message that is not JSON
\* leaves the event log as it was, raises no uncaught error and leaves the
\* component mounted; a function call whose arguments are not JSON is
\* skipped without an uncaught error, and the well-formed calls of the same
\* output list are still handled.
C19_MalformedDropped ==
    [][/\ (\E s \in Sids : DcMessage(s, Garbage))
            => /\ events' = events
               /\ uncaught' = uncaught
               /\ mounted'
       /\ (Render /\ Completed(NewestCalls) # NewestCalls)
            => /\ uncaught' = uncaught
               /\ mounted'
               /\ \A i \in 1..Len(NewestCalls) :
                     ~JSONParse(NewestCalls[i].arguments).throws =>
                         cache'[CacheKey(NewestCalls[i].name)] =
                             Result(NewestCalls[i].name,
                                    NewestCalls[i].arguments, now)]_vars

\* C20: the status moves only along Disconnected -> Connecting ->
\* Connected -> Disconnected and Connecting -> Disconnected: never from
\* Disconnected to Connected, never from Connected to Connecting, and from
\* Disconnected to Connecting only by a start.
C20_StatusTransitions ==
    [][/\ ~(isSessionActive = DISCONNECTED /\ isSessionActive' = CONNECTED)
       /\ ~(isSessionActive = CONNECTED /\ isSessionActive' = CONNECTING)
       /\ (isSessionActive = DISCONNECTED /\ isSessionActive' = CONNECTING)
            => StartSession]_vars

\* C21: at most one session's connection is live: no state has two open
\* peer connections, nor two unclosed data channels with listeners attached.
C21_OneLiveConnection ==
    /\ Cardinality({s \in Sids : pcs[s] = "open"}) <= 1
    /\ Cardinality({s \in Sids :
                      listeners[s] /\ dcs[s] \in {"connecting", "open"}}) <= 1

\* C22: in the first session, while it is live, once session.created was
\* delivered on the open channel and no render is pending, the registration
\* was sent, whatever was delivered before session.created.
C22_RegisteredAtAnyPosition ==
    ( /\ cur = 1
      /\ mounted
      /\ ~stopped
      /\ dcs[1] = "open"
      /\ created[1]
      /\ Stable ) => regSent[1] >= 1

\* the log holds a handled response.done with a confirm_final_plan call
ConfirmHandled ==
    \E i \in 1..Len(events) :
        /\ hcount[i] >= 1
        /\ \E j \in 1..Len(events[i].output) :
              events[i].output[j].name = CONFIRM

\* C23: a running audio monitor was armed by a timeout that had a channel to
\* send the closing instruction on, and while a session is live it is the
\* monitor of that session, armed after a confirm_final_plan call of that
\* session was handled.
C23_ArmedOnlyAfterConfirm ==
    \A k \in MonKinds :
        monitors[k] > 0 =>
            /\ k.dc # NoDc
            /\ (cur > 0 /\ ~stopped) => (k.dc = cur /\ ConfirmHandled)

\* C24: when microphone access is denied while the component is mounted,
\* the invocation has issued no HTTP request and created no peer connection
\* or data channel, and the status returns to Disconnected.
C24_MicDeniedBeforeNetwork ==
    [][\A s \in Sids :
          (MicDone(s, FALSE) /\ mounted) =>
              /\ ~TokenRequested(s)
              /\ pcs'[s] = "none"
              /\ dcs'[s] = "none"
              /\ isSessionActive' = DISCONNECTED]_vars

\* C25: when the status is Disconnected after a start that failed, the
\* failed attempt retains nothing: its data channel is not the dataChannel
\* state, its peer connection is not open, and its channel has no listener
\* that could still fire.
C25_FailedStartRetainsNothing ==
    \A s \in Sids :
        (pos[s] = "failed" /\ mounted /\ isSessionActive = DISCONNECTED) =>
            /\ dataChannel # s
            /\ pcs[s] # "open"
            /\ ~(listeners[s] /\ dcs[s] \in {"connecting", "open"})

\* number of checkAudioLevel loops running over the channel of session s
ArmedFor(s) ==
    Total(monitors, {k \in MonKinds : k.dc = s})

\* C26: however many confirm_final_plan calls arrive and however often the
\* handler runs again, at most one checkAudioLevel loop is armed for a
\* session, and a loop ends by calling stopSession and navigating only if
\* no loop has done so before.
C26_OneTerminatorPerSession ==
    [][/\ \A s \in Sids : ArmedFor(s)' <= 1
       /\ MonitorCount' < MonitorCount => ~navigating]_vars

====
